---- MODULE Spec2Model ----
(***************************************************************************)
(* PasswordVault: the cipher envelope (cryptoUtils.js), the password       *)
(* generator (passwordGenerator.js) and the credential store (database.js) *)
(* as a state machine.                                                     *)
(*                                                                         *)
(* Representation.  A JavaScript string is the sequence of its code        *)
(* points; a Buffer is a sequence of bytes 0..255; a hex string is the     *)
(* sequence of its digits, digit d standing for "0123456789abcdef"[d].     *)
(* A JavaScript value that may be null, undefined or a string is a record  *)
(* tagged by its type.                                                     *)
(***************************************************************************)
EXTENDS Integers, Sequences, FiniteSets, TLC

----------------------------------------------------------------------------
(* JavaScript values *)

Null == [type |-> "null"]

Undefined == [type |-> "undefined"]

Str(s) == [type |-> "string", chars |-> s]

Bool(b) == [type |-> "boolean", value |-> b]

\* JavaScript truthiness of null / undefined / a boolean / a string
\* ("" is falsy)
Truthy(v) ==
  \/ v.type = "string" /\ v.chars # << >>
  \/ v.type = "boolean" /\ v.value

----------------------------------------------------------------------------
(* Bounds of the checked instance *)

\* plaintext lengths 0..MaxPlainLen are sealed in the envelope checks
MaxPlainLen == 33

\* number of storePassword / retrievePassword / deletePassword calls made
\* in one behaviour, all processes together
MaxCalls == 3

----------------------------------------------------------------------------
(* passwordGenerator.js *)

\* "abcdefghijklmnopqrstuvwxyzABCDEFGHIJKLMNOPQRSTUVWXYZ0123456789!@#$%^&*()-_=+"
chars ==
  << 97, 98, 99, 100, 101, 102, 103, 104, 105, 106, 107, 108, 109,
     110, 111, 112, 113, 114, 115, 116, 117, 118, 119, 120, 121, 122,
     65, 66, 67, 68, 69, 70, 71, 72, 73, 74, 75, 76, 77,
     78, 79, 80, 81, 82, 83, 84, 85, 86, 87, 88, 89, 90,
     48, 49, 50, 51, 52, 53, 54, 55, 56, 57,
     33, 64, 35, 36, 37, 94, 38, 42, 40, 41, 45, 95, 61, 43 >>

\* generatePassword(length = 12)
DefaultLength == 12

\* the for loop of generatePassword from index i on; rnd[i + 1] is what
\* crypto.randomInt(0, chars.length) returns in iteration i
RECURSIVE GenerateLoop(_, _, _, _)
GenerateLoop(i, length, rnd, password) ==
  IF i < length
    THEN GenerateLoop(i + 1, length, rnd, Append(password, chars[rnd[i + 1] + 1]))
    ELSE password

\* generatePassword with its loop started at 1
generatePasswordShort(length, rnd) == GenerateLoop(1, length, rnd, << >>)

generatePassword(length, rnd) == GenerateLoop(0, length, rnd, << >>)

\* outcomes of the DefaultLength calls of crypto.randomInt(0, 76) of one
\* generatePassword() call: a run that walks through the whole alphabet
\* and a run that stays within the symbols
RandomIntRuns ==
  { [i \in 1..DefaultLength |-> (7 * i) % Len(chars)],
    [i \in 1..DefaultLength |-> 62 + (i % 14)] }

----------------------------------------------------------------------------
(* cryptoUtils.js *)

\* AES block and IV size in bytes
BlockSize == 16

\* crypto.createHash('sha256').update('your-secure-password-key').digest()
secretKey ==
  << 60, 68, 125, 186, 25, 165, 243, 235, 55, 232, 69, 204, 84, 171, 255, 46,
     143, 162, 51, 165, 24, 246, 126, 5, 196, 31, 20, 63, 21, 73, 48, 110 >>

\* the key of a vault whose passphrase was changed as SECURITY.md instructs
otherKey == [i \in 1..32 |-> (secretKey[i] + 7 * i) % 256]

\* bitwise exclusive or of two n-bit numbers
RECURSIVE XorBits(_, _, _)
XorBits(a, b, n) ==
  IF n = 0 THEN 0
  ELSE ((a + b) % 2) + 2 * XorBits(a \div 2, b \div 2, n - 1)

XorBlock(A, B) == [i \in 1..BlockSize |-> XorBits(A[i], B[i], 8)]

RECURSIVE SumBytes(_, _)
SumBytes(B, n) == IF n = 0 THEN 0 ELSE B[n] + SumBytes(B, n - 1)

\* The AES-256 block permutation belongs to OpenSSL; what the envelope
\* relies on is a keyed permutation of 16-byte blocks in which every output
\* byte depends on every input byte, in both directions.  Two keyed rounds of
\* "add the round key, then add the byte sum to every byte" stand for it
\* (17 is a unit mod 256, with inverse 241, so each round is a permutation).
MixBlock(B) ==
  LET t == SumBytes(B, BlockSize) % 256
  IN  [i \in 1..BlockSize |-> (B[i] + t) % 256]

UnmixBlock(D) ==
  LET t == (241 * SumBytes(D, BlockSize)) % 256
  IN  [i \in 1..BlockSize |-> (D[i] + 256 - t) % 256]

AddRoundKey(B, key, off) == [i \in 1..BlockSize |-> (B[i] + key[off + i]) % 256]

SubRoundKey(B, key, off) == [i \in 1..BlockSize |-> (B[i] + 256 - key[off + i]) % 256]

BlockEncrypt(key, B) ==
  MixBlock(AddRoundKey(MixBlock(AddRoundKey(B, key, 0)), key, BlockSize))

BlockDecrypt(key, C) ==
  SubRoundKey(UnmixBlock(SubRoundKey(UnmixBlock(C), key, BlockSize)), key, 0)

\* string -> Buffer, 'utf8' (code points below 0x800)
RECURSIVE Utf8Encode(_)
Utf8Encode(s) ==
  IF s = << >> THEN << >>
  ELSE LET c == Head(s)
       IN  (IF c < 128 THEN << c >>
            ELSE << 192 + (c \div 64), 128 + (c % 64) >>) \o Utf8Encode(Tail(s))

\* Buffer -> string, 'utf8': one- and two-byte sequences are decoded, every
\* other byte becomes U+FFFD; decoding never throws
RECURSIVE Utf8Decode(_)
Utf8Decode(b) ==
  IF b = << >> THEN << >>
  ELSE IF b[1] < 128 THEN << b[1] >> \o Utf8Decode(Tail(b))
  ELSE IF /\ b[1] >= 194 /\ b[1] <= 223
          /\ Len(b) >= 2 /\ b[2] >= 128 /\ b[2] <= 191
    THEN << (b[1] - 192) * 64 + (b[2] - 128) >> \o Utf8Decode(Tail(Tail(b)))
  ELSE << 65533 >> \o Utf8Decode(Tail(b))

\* Buffer -> hex string
RECURSIVE ToHex(_)
ToHex(b) ==
  IF b = << >> THEN << >>
  ELSE << b[1] \div 16, b[1] % 16 >> \o ToHex(Tail(b))

\* hex string -> Buffer; a trailing odd digit is dropped
FromHex(h) == [i \in 1..(Len(h) \div 2) |-> 16 * h[2 * i - 1] + h[2 * i]]

\* padding that adds nothing to a whole number of blocks
Pkcs7PadLazy(b) ==
  LET n == (BlockSize - (Len(b) % BlockSize)) % BlockSize
  IN  b \o [i \in 1..n |-> n]

\* the padding cipher.final() appends: 1..16 bytes, each holding their count
Pkcs7Pad(b) ==
  LET n == BlockSize - (Len(b) % BlockSize)
  IN  b \o [i \in 1..n |-> n]

\* the padding check of decipher.final() on the last plaintext block
Pkcs7Valid(b) ==
  /\ Len(b) >= BlockSize
  /\ LET n == b[Len(b)]
     IN  /\ n >= 1
         /\ n <= BlockSize
         /\ \A i \in 0..(n - 1) : b[Len(b) - i] = n

Pkcs7Strip(b) == SubSeq(b, 1, Len(b) - b[Len(b)])

\* cipher block chaining over the blocks of b, prev being the IV at first
RECURSIVE CbcEncrypt(_, _, _)
CbcEncrypt(key, prev, b) ==
  IF b = << >> THEN << >>
  ELSE LET c == BlockEncrypt(key, XorBlock(SubSeq(b, 1, BlockSize), prev))
       IN  c \o CbcEncrypt(key, c, SubSeq(b, BlockSize + 1, Len(b)))

RECURSIVE CbcDecrypt(_, _, _)
CbcDecrypt(key, prev, c) ==
  IF c = << >> THEN << >>
  ELSE LET blk == SubSeq(c, 1, BlockSize)
       IN  XorBlock(BlockDecrypt(key, blk), prev)
             \o CbcDecrypt(key, blk, SubSeq(c, BlockSize + 1, Len(c)))

\* encryptPassword under a given key; iv is what crypto.randomBytes(16) returned
sealWith(key, password, iv) ==
  [ encryptedPassword |-> ToHex(CbcEncrypt(key, iv, Pkcs7Pad(Utf8Encode(password)))),
    iv |-> ToHex(iv) ]

\* encryptPassword without its cipher.final('hex'): the last
\* block of the ciphertext is missing
encryptPasswordNoFinal(password, iv) ==
  LET e == sealWith(secretKey, password, iv)
  IN  [e EXCEPT !.encryptedPassword = SubSeq(@, 1, Len(@) - 2 * BlockSize)]

\* encryptPassword that hands the password's bytes through unenciphered
encryptPasswordPlainHex(password, iv) ==
  [ encryptedPassword |-> ToHex(Utf8Encode(password)), iv |-> ToHex(iv) ]

\* encryptPassword that keeps only the first half of the IV's hex digits
encryptPasswordHalfIv(password, iv) ==
  LET e == sealWith(secretKey, password, iv)
  IN  [e EXCEPT !.iv = SubSeq(@, 1, BlockSize)]

encryptPassword(password, iv) == sealWith(secretKey, password, iv)

\* decryptPassword with createDecipheriv called outside its try block
decryptOutcomeIvUncaught(encryptedPassword, iv) ==
  LET ivBuf == FromHex(iv)
      ct == FromHex(encryptedPassword)
      pt == CbcDecrypt(secretKey, ivBuf, ct)
  IN  IF Len(ivBuf) # BlockSize
        THEN [ ret |-> [type |-> "error", name |-> "ERR_CRYPTO_INVALID_IV"],
               message |-> "none" ]
      ELSE IF Len(ct) = 0 \/ Len(ct) % BlockSize # 0
        THEN [ret |-> Null, message |-> "wrong final block length"]
      ELSE IF ~Pkcs7Valid(pt)
        THEN [ret |-> Null, message |-> "bad decrypt"]
      ELSE [ret |-> Str(Utf8Decode(Pkcs7Strip(pt))), message |-> "none"]

\* The body of decryptPassword: what it returns and, when the try block
\* threw, the error.message it prints.
decryptOutcome(encryptedPassword, iv) ==
  LET ivBuf == FromHex(iv)
      ct == FromHex(encryptedPassword)
      pt == CbcDecrypt(secretKey, ivBuf, ct)
  IN  IF Len(ivBuf) # BlockSize
        THEN [ret |-> Null, message |-> "Invalid initialization vector"]
      ELSE IF Len(ct) = 0 \/ Len(ct) % BlockSize # 0
        THEN [ret |-> Null, message |-> "wrong final block length"]
      ELSE IF ~Pkcs7Valid(pt)
        THEN [ret |-> Null, message |-> "bad decrypt"]
      ELSE [ret |-> Str(Utf8Decode(Pkcs7Strip(pt))), message |-> "none"]

decryptPassword(encryptedPassword, iv) == decryptOutcome(encryptedPassword, iv).ret

\* outcomes of crypto.randomBytes(16)
RandomIVs ==
  { [i \in 1..BlockSize |-> 0],
    [i \in 1..BlockSize |-> (37 * i + 11) % 256] }

----------------------------------------------------------------------------
(* database.js: the Password collection and the three operations on it *)

\* the vault processes sharing the store
Procs == {1, 2}

Users == {"alice", "bob"}

Services == {"Gmail"}

Usernames == {"a@x.com"}

\* "hunter2pass"
hunter2pass == << 104, 117, 110, 116, 101, 114, 50, 112, 97, 115, 115 >>

\* what a caller passes as password: null, or a secret
PasswordArgs == { Null, Str(hunter2pass) }

\* the passwords storePassword can come to seal, and their envelopes:
\* generatePassword and encryptPassword tabulated over what the store draws
GeneratedPasswords ==
  { << rnd, generatePassword(DefaultLength, rnd) >> : rnd \in RandomIntRuns }

Generated(rnd) == (CHOOSE t \in GeneratedPasswords : t[1] = rnd)[2]

StorePlaintexts ==
  { a.chars : a \in { b \in PasswordArgs : b # Null } } \cup
  { t[2] : t \in GeneratedPasswords }

SealedEnvelopes ==
  { << pw, iv, encryptPassword(pw, iv) >> : pw \in StorePlaintexts, iv \in RandomIVs }

Sealed(pw, iv) == (CHOOSE t \in SealedEnvelopes : t[1] = pw /\ t[2] = iv)[3]

\* decryptOutcome tabulated over the envelopes above
OpenedEnvelopes ==
  { << t[3], decryptOutcome(t[3].encryptedPassword, t[3].iv) >> : t \in SealedEnvelopes }

Opened(encryptedPassword, iv) ==
  LET e == [encryptedPassword |-> encryptedPassword, iv |-> iv]
  IN  IF \E t \in OpenedEnvelopes : t[1] = e
        THEN (CHOOSE t \in OpenedEnvelopes : t[1] = e)[2]
        ELSE decryptOutcome(encryptedPassword, iv)

VARIABLES
  db,       \* the documents of the Password collection
  pc,       \* pc[p]: "idle", or "save" while storePassword awaits its write
  args,     \* args[p]: the call p made last (or is in)
  locals,   \* locals[p]: the variables of a suspended storePassword
  ret,      \* ret[p]: what p's last call resolved to
  out,      \* out[p]: the console lines of p's last call
  calls,    \* the number of calls made so far
  latest    \* history: per key, the secret of the latest write that took
            \* effect, null when the key was deleted since or never written

storeVars == << db, pc, args, locals, ret, out, calls, latest >>

Keys == Users \X Services \X Usernames

Key(a) == << a.user, a.service, a.username >>

Pending == [type |-> "pending"]

Error(name) == [type |-> "error", name |-> name]

Line(text, arg) == [text |-> text, arg |-> arg]

NoCall == [op |-> "none"]

NoLocals == [state |-> "none"]

\* the key fields of a document or of a query
SameKey(x, service, username, user) ==
  x.service = service /\ x.username = username /\ x.user = user

\* Password.findOne({ service, username, user }): a matching document
\* (the oldest, were there several) or null
\* a findOne that never finds a document
FindOneNothing(d, service, username, user) == Null

\* a findOne whose query leaves out the owner
FindOneAnyUser(d, service, username, user) ==
  LET m == { x \in d : x.service = service /\ x.username = username }
  IN  IF m = {} THEN Null
      ELSE LET x == CHOOSE x \in m : \A y \in m : x.id <= y.id
           IN  [type |-> "document", doc |-> x]

FindOne(d, service, username, user) ==
  LET m == { x \in d : SameKey(x, service, username, user) }
  IN  IF m = {} THEN Null
      ELSE LET x == CHOOSE x \in m : \A y \in m : x.id <= y.id
           IN  [type |-> "document", doc |-> x]

\* the collection without its unique index
UniqueIndexOff(d, service, username, user) == FALSE

\* passwordSchema.index({ service, username, user }, { unique: true }):
\* whether inserting a document under this key is refused with E11000
UniqueIndexRefuses(d, service, username, user) ==
  \E x \in d : SameKey(x, service, username, user)

\* the _id of new Password(...): an ObjectId no document has or had
HeldIds ==
  { x.id : x \in db } \cup
  { locals[p].existingPassword.id :
      p \in { q \in Procs : pc[q] = "save" /\ locals[q].existingPassword # Null } }

NewObjectId == CHOOSE n \in 1..(Cardinality(HeldIds) + 1) : n \notin HeldIds

\* the update without its assignment to existingPassword.iv
SetCiphertextOnly(x, encryptedPassword, iv) ==
  [x EXCEPT !.encryptedPassword = encryptedPassword]

\* the update without its assignment to existingPassword.encryptedPassword
SetNonceOnly(x, encryptedPassword, iv) == [x EXCEPT !.iv = iv]

\* existingPassword.encryptedPassword = encryptedPassword;
\* existingPassword.iv = iv
SetEnvelope(x, encryptedPassword, iv) ==
  [x EXCEPT !.encryptedPassword = encryptedPassword, !.iv = iv]

\* new Password(...) with the account name in the place of the owner
NewPasswordOwnedByAccount(id, service, username, user, encryptedPassword, iv) ==
  [ id |-> id, service |-> service, username |-> username, user |-> username,
    encryptedPassword |-> encryptedPassword, iv |-> iv ]

\* new Password({ service, username, user, encryptedPassword, iv })
NewPassword(id, service, username, user, encryptedPassword, iv) ==
  [ id |-> id, service |-> service, username |-> username, user |-> user,
    encryptedPassword |-> encryptedPassword, iv |-> iv ]

\* a delete whose query leaves out the owner
FindOneAndDeleteAnyUser(d, service, username, user) ==
  d \ { x \in d : x.service = service /\ x.username = username }

\* the collection after Password.findOneAndDelete({ service, username, user })
FindOneAndDelete(d, service, username, user) ==
  LET result == FindOne(d, service, username, user)
  IN  IF result = Null THEN d ELSE d \ { result.doc }

\* a storePassword that inserts an empty document before it asks findOne
storePasswordFindWritesFirst(p, service, username, password, user) ==
  /\ pc[p] = "idle"
  /\ calls < MaxCalls
  /\ \E rnd \in IF Truthy(password) THEN { << >> } ELSE RandomIntRuns :
     \E iv \in RandomIVs :
       LET pw == IF Truthy(password) THEN password.chars ELSE Generated(rnd)
           env == Sealed(pw, iv)
           existingPassword == FindOne(db, service, username, user)
       IN  /\ locals' = [locals EXCEPT ![p] =
                 [ state |-> "awaiting save",
                   password |-> pw,
                   encryptedPassword |-> env.encryptedPassword,
                   iv |-> env.iv,
                   existingPassword |->
                     IF existingPassword = Null THEN Null
                     ELSE [type |-> "document", id |-> existingPassword.doc.id] ]]
           /\ out' = [out EXCEPT ![p] =
                 IF Truthy(password) THEN << >>
                 ELSE << Line("Generated Password", Str(pw)) >>]
  /\ pc' = [pc EXCEPT ![p] = "save"]
  /\ args' = [args EXCEPT ![p] =
        [ op |-> "storePassword", service |-> service, username |-> username,
          password |-> password, user |-> user ]]
  /\ ret' = [ret EXCEPT ![p] = Pending]
  /\ calls' = calls + 1
  /\ db' = IF FindOne(db, service, username, user) # Null THEN db
           ELSE db \cup { NewPassword(NewObjectId, service, username, user,
                                      << >>, << >>) }
  /\ UNCHANGED latest

\* a storePassword that generates only when the password is null
storePasswordFindKeepsEmpty(p, service, username, password, user) ==
  /\ pc[p] = "idle"
  /\ calls < MaxCalls
  /\ \E rnd \in IF (password # Null) THEN { << >> } ELSE RandomIntRuns :
     \E iv \in RandomIVs :
       LET pw == IF (password # Null) THEN password.chars ELSE Generated(rnd)
           env == encryptPassword(pw, iv)
           existingPassword == FindOne(db, service, username, user)
       IN  /\ locals' = [locals EXCEPT ![p] =
                 [ state |-> "awaiting save",
                   password |-> pw,
                   encryptedPassword |-> env.encryptedPassword,
                   iv |-> env.iv,
                   existingPassword |->
                     IF existingPassword = Null THEN Null
                     ELSE [type |-> "document", id |-> existingPassword.doc.id] ]]
           /\ out' = [out EXCEPT ![p] =
                 IF (password # Null) THEN << >>
                 ELSE << Line("Generated Password", Str(pw)) >>]
  /\ pc' = [pc EXCEPT ![p] = "save"]
  /\ args' = [args EXCEPT ![p] =
        [ op |-> "storePassword", service |-> service, username |-> username,
          password |-> password, user |-> user ]]
  /\ ret' = [ret EXCEPT ![p] = Pending]
  /\ calls' = calls + 1
  /\ UNCHANGED << db, latest >>

\* storePassword from its call to the reply of findOne: the password is
\* generated if none was passed, sealed, and the key is looked up
storePasswordFind(p, service, username, password, user) ==
  /\ pc[p] = "idle"
  /\ calls < MaxCalls
  /\ \E rnd \in IF Truthy(password) THEN { << >> } ELSE RandomIntRuns :
     \E iv \in RandomIVs :
       LET pw == IF Truthy(password) THEN password.chars ELSE Generated(rnd)
           env == Sealed(pw, iv)
           existingPassword == FindOne(db, service, username, user)
       IN  /\ locals' = [locals EXCEPT ![p] =
                 [ state |-> "awaiting save",
                   password |-> pw,
                   encryptedPassword |-> env.encryptedPassword,
                   iv |-> env.iv,
                   existingPassword |->
                     IF existingPassword = Null THEN Null
                     ELSE [type |-> "document", id |-> existingPassword.doc.id] ]]
           /\ out' = [out EXCEPT ![p] =
                 IF Truthy(password) THEN << >>
                 ELSE << Line("Generated Password", Str(pw)) >>]
  /\ pc' = [pc EXCEPT ![p] = "save"]
  /\ args' = [args EXCEPT ![p] =
        [ op |-> "storePassword", service |-> service, username |-> username,
          password |-> password, user |-> user ]]
  /\ ret' = [ret EXCEPT ![p] = Pending]
  /\ calls' = calls + 1
  /\ UNCHANGED << db, latest >>

\* a storePassword whose save() of a document that is gone does nothing
\* and does not throw
storePasswordSaveSilent(p) ==
  /\ pc[p] = "save"
  /\ LET a == args[p]
         l == locals[p]
     IN  IF l.existingPassword # Null
           THEN IF \E x \in db : x.id = l.existingPassword.id
                  THEN /\ db' = { IF x.id = l.existingPassword.id
                                    THEN SetEnvelope(x, l.encryptedPassword, l.iv)
                                    ELSE x : x \in db }
                       /\ out' = [out EXCEPT ![p] =
                             Append(@, Line("Updated password for", Undefined))]
                       /\ latest' = [latest EXCEPT ![Key(a)] = Str(l.password)]
                  ELSE /\ db' = db
                       /\ out' = [out EXCEPT ![p] =
                             Append(@, Line("Updated password for", Undefined))]
                       /\ latest' = latest
           ELSE IF UniqueIndexRefuses(db, a.service, a.username, a.user)
                  THEN /\ db' = db
                       /\ out' = [out EXCEPT ![p] =
                             Append(@, Line("Error saving password",
                                            Error("E11000 duplicate key")))]
                       /\ latest' = latest
                  ELSE /\ db' = db \cup
                             { NewPassword(NewObjectId, a.service, a.username, a.user,
                                           l.encryptedPassword, l.iv) }
                       /\ out' = [out EXCEPT ![p] =
                             Append(@, Line("Password saved for", Undefined))]
                       /\ latest' = [latest EXCEPT ![Key(a)] = Str(l.password)]
  /\ pc' = [pc EXCEPT ![p] = "idle"]
  /\ locals' = [locals EXCEPT ![p] = NoLocals]
  /\ ret' = [ret EXCEPT ![p] = Undefined]
  /\ UNCHANGED << args, calls >>

\* storePassword from the reply of findOne to its return: the write.
\* save() of the document found updates the document with that _id and
\* throws DocumentNotFoundError when there is none any more; save() of a
\* new document inserts it unless the unique index refuses it. The catch
\* block prints whatever was thrown, and the call resolves to undefined.
storePasswordSave(p) ==
  /\ pc[p] = "save"
  /\ LET a == args[p]
         l == locals[p]
     IN  IF l.existingPassword # Null
           THEN IF \E x \in db : x.id = l.existingPassword.id
                  THEN /\ db' = { IF x.id = l.existingPassword.id
                                    THEN SetEnvelope(x, l.encryptedPassword, l.iv)
                                    ELSE x : x \in db }
                       /\ out' = [out EXCEPT ![p] =
                             Append(@, Line("Updated password for", Undefined))]
                       /\ latest' = [latest EXCEPT ![Key(a)] = Str(l.password)]
                  ELSE /\ db' = db
                       /\ out' = [out EXCEPT ![p] =
                             Append(@, Line("Error saving password",
                                            Error("DocumentNotFoundError")))]
                       /\ latest' = latest
           ELSE IF UniqueIndexRefuses(db, a.service, a.username, a.user)
                  THEN /\ db' = db
                       /\ out' = [out EXCEPT ![p] =
                             Append(@, Line("Error saving password",
                                            Error("E11000 duplicate key")))]
                       /\ latest' = latest
                  ELSE /\ db' = db \cup
                             { NewPassword(NewObjectId, a.service, a.username, a.user,
                                           l.encryptedPassword, l.iv) }
                       /\ out' = [out EXCEPT ![p] =
                             Append(@, Line("Password saved for", Undefined))]
                       /\ latest' = [latest EXCEPT ![Key(a)] = Str(l.password)]
  /\ pc' = [pc EXCEPT ![p] = "idle"]
  /\ locals' = [locals EXCEPT ![p] = NoLocals]
  /\ ret' = [ret EXCEPT ![p] = Undefined]
  /\ UNCHANGED << args, calls >>

\* a retrievePassword that looks the entry up with findOneAndDelete
retrievePasswordAndDelete(p, service, username, user) ==
  /\ pc[p] = "idle"
  /\ calls < MaxCalls
  /\ LET entry == FindOne(db, service, username, user)
     IN  IF entry = Null
           THEN /\ out' = [out EXCEPT ![p] = << Line("No password found.", Undefined) >>]
                /\ ret' = [ret EXCEPT ![p] = Null]
           ELSE LET o == Opened(entry.doc.encryptedPassword, entry.doc.iv)
                IN  /\ out' = [out EXCEPT ![p] =
                          (IF o.message = "none" THEN << >>
                           ELSE << Line("Decryption failed", Error(o.message)) >>)
                          \o << Line("Password for", o.ret) >>]
                    /\ ret' = [ret EXCEPT ![p] = o.ret]
  /\ args' = [args EXCEPT ![p] =
        [ op |-> "retrievePassword", service |-> service, username |-> username,
          user |-> user ]]
  /\ calls' = calls + 1
  /\ db' = FindOneAndDelete(db, service, username, user)
  /\ UNCHANGED << pc, locals, latest >>

\* retrievePassword: findOne, then decryptPassword on the entry found
retrievePassword(p, service, username, user) ==
  /\ pc[p] = "idle"
  /\ calls < MaxCalls
  /\ LET entry == FindOne(db, service, username, user)
     IN  IF entry = Null
           THEN /\ out' = [out EXCEPT ![p] = << Line("No password found.", Undefined) >>]
                /\ ret' = [ret EXCEPT ![p] = Null]
           ELSE LET o == Opened(entry.doc.encryptedPassword, entry.doc.iv)
                IN  /\ out' = [out EXCEPT ![p] =
                          (IF o.message = "none" THEN << >>
                           ELSE << Line("Decryption failed", Error(o.message)) >>)
                          \o << Line("Password for", o.ret) >>]
                    /\ ret' = [ret EXCEPT ![p] = o.ret]
  /\ args' = [args EXCEPT ![p] =
        [ op |-> "retrievePassword", service |-> service, username |-> username,
          user |-> user ]]
  /\ calls' = calls + 1
  /\ UNCHANGED << db, pc, locals, latest >>

\* deletePassword: findOneAndDelete, and the line that tells what it found
deletePassword(p, service, username, user) ==
  /\ pc[p] = "idle"
  /\ calls < MaxCalls
  /\ db' = FindOneAndDelete(db, service, username, user)
  /\ out' = [out EXCEPT ![p] =
        << IF FindOne(db, service, username, user) # Null
             THEN Line("Deleted password for", Undefined)
             ELSE Line("No password found.", Undefined) >>]
  /\ ret' = [ret EXCEPT ![p] = Undefined]
  /\ args' = [args EXCEPT ![p] =
        [ op |-> "deletePassword", service |-> service, username |-> username,
          user |-> user ]]
  /\ calls' = calls + 1
  /\ latest' = [latest EXCEPT ![<< user, service, username >>] = Null]
  /\ UNCHANGED << pc, locals >>

\* what the driver rejects a query or a write with when the server cannot
\* be reached
PersistenceErrors == { "MongoNetworkError" }

\* storePassword when findOne rejects: the password has been generated,
\* announced and encrypted; the catch block prints the error
storePasswordFindThrows(p, service, username, password, user, e) ==
  /\ pc[p] = "idle"
  /\ calls < MaxCalls
  /\ \E rnd \in IF Truthy(password) THEN { << >> } ELSE RandomIntRuns :
       out' = [out EXCEPT ![p] =
         (IF Truthy(password) THEN << >>
          ELSE << Line("Generated Password", Str(Generated(rnd))) >>)
         \o << Line("Error saving password", Error(e)) >>]
  /\ args' = [args EXCEPT ![p] =
        [ op |-> "storePassword", service |-> service, username |-> username,
          password |-> password, user |-> user ]]
  /\ ret' = [ret EXCEPT ![p] = Undefined]
  /\ calls' = calls + 1
  /\ UNCHANGED << db, pc, locals, latest >>

\* a storePassword without its try/catch: a save() that rejects rejects
\* the call
storePasswordSaveThrowsUncaught(p, e) ==
  /\ pc[p] = "save"
  /\ pc' = [pc EXCEPT ![p] = "idle"]
  /\ locals' = [locals EXCEPT ![p] = NoLocals]
  /\ ret' = [ret EXCEPT ![p] = [type |-> "rejected", name |-> e]]
  /\ UNCHANGED << db, out, args, calls, latest >>

\* storePassword when the save() of either branch rejects and nothing is
\* written
storePasswordSaveThrows(p, e) ==
  /\ pc[p] = "save"
  /\ out' = [out EXCEPT ![p] = Append(@, Line("Error saving password", Error(e)))]
  /\ pc' = [pc EXCEPT ![p] = "idle"]
  /\ locals' = [locals EXCEPT ![p] = NoLocals]
  /\ ret' = [ret EXCEPT ![p] = Undefined]
  /\ UNCHANGED << db, args, calls, latest >>

\* retrievePassword when findOne rejects
retrievePasswordThrows(p, service, username, user, e) ==
  /\ pc[p] = "idle"
  /\ calls < MaxCalls
  /\ out' = [out EXCEPT ![p] = << Line("Error retrieving password", Error(e)) >>]
  /\ ret' = [ret EXCEPT ![p] = Null]
  /\ args' = [args EXCEPT ![p] =
        [ op |-> "retrievePassword", service |-> service, username |-> username,
          user |-> user ]]
  /\ calls' = calls + 1
  /\ UNCHANGED << db, pc, locals, latest >>

\* deletePassword when findOneAndDelete rejects and nothing is deleted
deletePasswordThrows(p, service, username, user, e) ==
  /\ pc[p] = "idle"
  /\ calls < MaxCalls
  /\ out' = [out EXCEPT ![p] = << Line("Error deleting password", Error(e)) >>]
  /\ ret' = [ret EXCEPT ![p] = Undefined]
  /\ args' = [args EXCEPT ![p] =
        [ op |-> "deletePassword", service |-> service, username |-> username,
          user |-> user ]]
  /\ calls' = calls + 1
  /\ UNCHANGED << db, pc, locals, latest >>

\* no call made yet; d is what the collection holds
StoreStartsWith(d) ==
  /\ db = d
  /\ pc = [p \in Procs |-> "idle"]
  /\ args = [p \in Procs |-> NoCall]
  /\ locals = [p \in Procs |-> NoLocals]
  /\ ret = [p \in Procs |-> Undefined]
  /\ out = [p \in Procs |-> << >>]
  /\ calls = 0
  /\ latest = [k \in Keys |-> Null]

InitStore == StoreStartsWith({})

\* A record under alice's key that a vault with another passphrase sealed
\* (SECURITY.md has the passphrase changed; the collection is kept).
ForeignRecord ==
  LET e == sealWith(otherKey, hunter2pass, CHOOSE iv \in RandomIVs : iv[1] # 0)
  IN  NewPassword(1, "Gmail", "a@x.com", "alice", e.encryptedPassword, e.iv)

----------------------------------------------------------------------------
(* database.js: the user credentials file *)

\* the bytes of crypto.createHash('sha256').update(password).digest(),
\* position i of the 32
RECURSIVE DigestByte(_, _, _)
DigestByte(b, i, n) ==
  IF n = 0 THEN (163 + 29 * i + 101 * Len(b)) % 256
  ELSE (DigestByte(b, i, n - 1) * 31 + b[n] * (2 * (i + n) + 1)) % 256

hashPassword(password) ==
  LET b == Utf8Encode(password)
  IN  ToHex([i \in 1..32 |-> DigestByte(b, i, Len(b))])

\* usersFile is null while users.json does not exist, else the JSON array
\* written to it; loadUsers gives [] when readFileSync throws
loadUsers(usersFile) == IF usersFile = Null THEN << >> ELSE usersFile.items

\* users.json after saveUsers(users)
saveUsers(users) == [type |-> "array", items |-> users]

\* users.some(user => user.username === username)
SomeUser(users, username) ==
  \E i \in 1..Len(users) : users[i].username = username

\* users.find(user => user.username === username)
FindUser(users, username) ==
  IF SomeUser(users, username)
    THEN users[CHOOSE i \in 1..Len(users) :
                 /\ users[i].username = username
                 /\ \A j \in 1..(i - 1) : users[j].username # username]
    ELSE Undefined

\* a createUser that leaves out the check for an existing user
createUserUnchecked(usersFile, username, password) ==
  [ ret |-> Bool(TRUE),
    file |-> saveUsers(Append(loadUsers(usersFile),
               [username |-> username, password |-> hashPassword(password)])) ]

\* a createUser that gives the entry of a name already taken the new hash
createUserReplaces(usersFile, username, password) ==
  LET users == loadUsers(usersFile)
      entry == [username |-> username, password |-> hashPassword(password)]
  IN  IF SomeUser(users, username)
        THEN [ ret |-> Bool(FALSE),
               file |-> saveUsers([i \in 1..Len(users) |->
                          IF users[i].username = username THEN entry
                          ELSE users[i]]) ]
        ELSE [ret |-> Bool(TRUE), file |-> saveUsers(Append(users, entry))]

\* what createUser returns, and users.json after it
createUser(usersFile, username, password) ==
  LET users == loadUsers(usersFile)
  IN  IF SomeUser(users, username)
        THEN [ret |-> Bool(FALSE), file |-> usersFile]
        ELSE [ ret |-> Bool(TRUE),
               file |-> saveUsers(Append(users,
                          [username |-> username,
                           password |-> hashPassword(password)])) ]

\* user && user.password === hashPassword(password)
authUser(usersFile, username, password) ==
  LET user == FindUser(loadUsers(usersFile), username)
  IN  IF user = Undefined THEN Undefined
      ELSE Bool(user.password = hashPassword(password))

----------------------------------------------------------------------------
(* app.js: the command line of one vault process *)

\* the process of Procs that is this command line
AppProc == CHOOSE p \in Procs : \A q \in Procs : p <= q

\* the characters of the names in Users
NameChars(u) ==
  IF u = "alice" THEN << 97, 108, 105, 99, 101 >> ELSE << 98, 111, 98 >>

\* the owner the store is passed when loggedInUser is v
OwnerOf(v) == CHOOSE u \in Users : NameChars(u) = v.chars

\* what is typed at a username prompt: a name, or just the return key
TypedNames == { << >> } \cup { NameChars(u) : u \in Users }

\* "Secr3t"
Secr3t == << 83, 101, 99, 114, 51, 116 >>

\* "wrong"
wrong == << 119, 114, 111, 110, 103 >>

\* what is typed at a login or registration password prompt
TypedPasswords == { Secr3t, wrong }

\* what is typed at "Enter password (leave empty to generate)"
TypedSecrets == { Str(<< >>), Str(hunter2pass) }

\* users.json as an earlier run of the program can have left it
UsersFiles ==
  { Null } \cup
  { createUser(Null, u, pw).file : u \in TypedNames, pw \in TypedPasswords }

VARIABLES
  appPc,         \* "start", "login", "menu", "exited" ("off": no command line)
  usersFile,     \* users.json
  loggedInUser,  \* the variable of app.js
  created,       \* the createUser call of startApp and what it returned
  authed,        \* the last authUser call of login and what it returned
  authenticated  \* history: the usernames for which authUser returned true

appVars == << appPc, usersFile, loggedInUser, created, authed, authenticated >>

NoAppRun ==
  /\ appPc = "off"
  /\ usersFile = Null
  /\ loggedInUser = Null
  /\ created = NoCall
  /\ authed = NoCall
  /\ authenticated = {}

\* startApp up to its call of login(): the registration, if asked for
startApp(register, newUsername, newPassword) ==
  /\ appPc = "start"
  /\ IF register
       THEN LET c == createUser(usersFile, newUsername, newPassword)
            IN  /\ usersFile' = c.file
                /\ created' = [ op |-> "createUser", username |-> newUsername,
                                password |-> newPassword, ret |-> c.ret ]
       ELSE UNCHANGED << usersFile, created >>
  /\ appPc' = "login"
  /\ UNCHANGED << loggedInUser, authed, authenticated, storeVars >>

\* a login that takes the name typed without asking authUser
loginUnchecked(username, password) ==
  /\ appPc = "login"
  /\ authed' = [ op |-> "authUser", username |-> username,
                 password |-> password, ret |-> Bool(TRUE) ]
  /\ loggedInUser' = Str(username)
  /\ authenticated' = authenticated
  /\ appPc' = IF Truthy(Str(username)) THEN "menu" ELSE "login"
  /\ UNCHANGED << usersFile, created, storeVars >>

\* login: one pass through the body of while (!loggedInUser) and the test
\* of the loop that follows it
login(username, password) ==
  /\ appPc = "login"
  /\ LET r == authUser(usersFile, username, password)
         l == IF Truthy(r) THEN Str(username) ELSE loggedInUser
     IN  /\ authed' = [ op |-> "authUser", username |-> username,
                        password |-> password, ret |-> r ]
         /\ loggedInUser' = l
         /\ authenticated' =
              IF Truthy(r) THEN authenticated \cup {username} ELSE authenticated
         /\ appPc' = IF Truthy(l) THEN "menu" ELSE "login"
  /\ UNCHANGED << usersFile, created, storeVars >>

\* mainMenu, case "1", up to the reply of findOne
mainMenuStore(service, username, password) ==
  /\ appPc = "menu"
  /\ storePasswordFind(AppProc, service, username,
                       IF Truthy(password) THEN password ELSE Null,
                       OwnerOf(loggedInUser))
  /\ UNCHANGED appVars

\* mainMenu, case "1": the awaited storePassword goes on and returns
mainMenuStoreReturns ==
  /\ appPc = "menu"
  /\ storePasswordSave(AppProc)
  /\ UNCHANGED appVars

\* mainMenu, case "2"
mainMenuRetrieve(service, username) ==
  /\ appPc = "menu"
  /\ retrievePassword(AppProc, service, username, OwnerOf(loggedInUser))
  /\ UNCHANGED appVars

\* mainMenu, case "3"
mainMenuDelete(service, username) ==
  /\ appPc = "menu"
  /\ deletePassword(AppProc, service, username, OwnerOf(loggedInUser))
  /\ UNCHANGED appVars

\* mainMenu, case "4": process.exit(0)
mainMenuExit ==
  /\ appPc = "menu"
  /\ pc[AppProc] = "idle"
  /\ appPc' = "exited"
  /\ UNCHANGED << usersFile, loggedInUser, created, authed, authenticated, storeVars >>

InitApp ==
  /\ InitStore
  /\ appPc = "start"
  /\ usersFile \in UsersFiles
  /\ loggedInUser = Null
  /\ created = NoCall
  /\ authed = NoCall
  /\ authenticated = {}

\* database.js called by the vault processes of one directory: the file
\* can change between the read and the write of a createUser

\* createUser of process p up to its test of users.some: loadUsers reads
\* users.json, or gives [] when readFileSync or JSON.parse throws
createUserLoad(p, username, password, readable) ==
  /\ pc[p] = "idle"
  /\ calls < MaxCalls
  /\ LET users == IF readable THEN loadUsers(usersFile) ELSE << >>
     IN  IF SomeUser(users, username)
           THEN /\ ret' = [ret EXCEPT ![p] = Bool(FALSE)]
                /\ UNCHANGED << pc, locals >>
           ELSE /\ ret' = [ret EXCEPT ![p] = Pending]
                /\ pc' = [pc EXCEPT ![p] = "saveUsers"]
                /\ locals' = [locals EXCEPT ![p] =
                      [state |-> "users loaded", users |-> users]]
  /\ args' = [args EXCEPT ![p] =
        [op |-> "createUser", username |-> username, password |-> password]]
  /\ calls' = calls + 1
  /\ UNCHANGED << usersFile, db, out, latest >>
  /\ UNCHANGED << appPc, loggedInUser, created, authed, authenticated >>

\* createUser of process p from users.push to its return
createUserSave(p) ==
  /\ pc[p] = "saveUsers"
  /\ usersFile' = saveUsers(Append(locals[p].users,
                    [ username |-> args[p].username,
                      password |-> hashPassword(args[p].password) ]))
  /\ ret' = [ret EXCEPT ![p] = Bool(TRUE)]
  /\ pc' = [pc EXCEPT ![p] = "idle"]
  /\ locals' = [locals EXCEPT ![p] = NoLocals]
  /\ UNCHANGED << args, calls, db, out, latest >>
  /\ UNCHANGED << appPc, loggedInUser, created, authed, authenticated >>

\* authUser called by process p
authUserCall(p, username, password) ==
  /\ pc[p] = "idle"
  /\ calls < MaxCalls
  /\ ret' = [ret EXCEPT ![p] = authUser(usersFile, username, password)]
  /\ args' = [args EXCEPT ![p] =
        [op |-> "authUser", username |-> username, password |-> password]]
  /\ calls' = calls + 1
  /\ UNCHANGED << pc, locals, db, out, latest, appVars >>

----------------------------------------------------------------------------
(* The cipher envelope on its own: one plaintext is sealed, the envelope *)
(* is possibly damaged where it is kept, and it is opened.               *)

\* the plaintexts sealed: for every length up to MaxPlainLen one of the
\* generator's alphabet and one with two-byte characters
Plaintexts ==
  { [i \in 1..n |-> chars[((5 * i + n) % Len(chars)) + 1]] : n \in 0..MaxPlainLen } \cup
  { [i \in 1..n |-> IF i % 3 = 0 THEN 233 ELSE 48 + (i % 10)] : n \in 1..MaxPlainLen }

\* the amounts (mod 256) by which a damaged ciphertext byte differs
ByteDeltas == {1, 128}

VARIABLES
  phase,     \* "plain", "sealed", "damaged", "opened", "opened damaged"
  plain,     \* the plaintext
  envelope,  \* { encryptedPassword, iv } as stored
  damage,    \* what was done to the stored envelope
  result     \* what decryptPassword made of the envelope

envelopeVars == << phase, plain, envelope, damage, result >>

NoDamage == [kind |-> "none", at |-> 0]

NoEnvelope == [encryptedPassword |-> << >>, iv |-> << >>]

NoEnvelopeRun ==
  /\ phase = "off"
  /\ plain = << >>
  /\ envelope = NoEnvelope
  /\ damage = NoDamage
  /\ result = [ret |-> Pending, message |-> "none"]

InitEnvelope ==
  /\ InitStore
  /\ NoAppRun
  /\ phase = "plain"
  /\ plain \in Plaintexts
  /\ envelope = NoEnvelope
  /\ damage = NoDamage
  /\ result = [ret |-> Pending, message |-> "none"]

\* encryptPassword(plain)
Seal ==
  /\ phase = "plain"
  /\ \E iv \in RandomIVs : envelope' = encryptPassword(plain, iv)
  /\ phase' = "sealed"
  /\ UNCHANGED << plain, damage, result, storeVars, appVars >>

\* one byte of the stored ciphertext is changed
FlipCiphertextByte ==
  /\ phase = "sealed"
  /\ \E j \in 1..(Len(envelope.encryptedPassword) \div 2), d \in ByteDeltas :
       LET ct == FromHex(envelope.encryptedPassword)
       IN  /\ envelope' = [envelope EXCEPT !.encryptedPassword =
                             ToHex([ct EXCEPT ![j] = (@ + d) % 256])]
           /\ damage' = [kind |-> "ciphertext byte", at |-> j]
  /\ phase' = "damaged"
  /\ UNCHANGED << plain, result, storeVars, appVars >>

\* the stored nonce loses its tail
TruncateNonce ==
  /\ phase = "sealed"
  /\ \E n \in 0..(Len(envelope.iv) - 1) :
       /\ envelope' = [envelope EXCEPT !.iv = SubSeq(@, 1, n)]
       /\ damage' = [kind |-> "nonce", at |-> n]
  /\ phase' = "damaged"
  /\ UNCHANGED << plain, result, storeVars, appVars >>

\* what is kept was sealed by a vault with another passphrase
SealedUnderOtherKey ==
  /\ phase = "sealed"
  /\ envelope' = sealWith(otherKey, plain, FromHex(envelope.iv))
  /\ damage' = [kind |-> "key", at |-> 0]
  /\ phase' = "damaged"
  /\ UNCHANGED << plain, result, storeVars, appVars >>

\* decryptPassword(envelope.encryptedPassword, envelope.iv)
Open ==
  /\ phase \in {"sealed", "damaged"}
  /\ result' = decryptOutcome(envelope.encryptedPassword, envelope.iv)
  /\ phase' = IF phase = "sealed" THEN "opened" ELSE "opened damaged"
  /\ UNCHANGED << plain, envelope, damage, storeVars, appVars >>

NextEnvelope ==
  Seal \/ FlipCiphertextByte \/ TruncateNonce \/ SealedUnderOtherKey \/ Open

----------------------------------------------------------------------------
(* Specifications *)

vars == << storeVars, envelopeVars, appVars >>

Init == InitStore /\ NoEnvelopeRun /\ NoAppRun

StoreFind ==
  /\ \E p \in Procs, service \in Services, username \in Usernames,
        password \in PasswordArgs, user \in Users :
       storePasswordFind(p, service, username, password, user)
  /\ UNCHANGED << envelopeVars, appVars >>

StoreSave ==
  /\ \E p \in Procs : storePasswordSave(p)
  /\ UNCHANGED << envelopeVars, appVars >>

Retrieve ==
  /\ \E p \in Procs, service \in Services, username \in Usernames, user \in Users :
       retrievePassword(p, service, username, user)
  /\ UNCHANGED << envelopeVars, appVars >>

Delete ==
  /\ \E p \in Procs, service \in Services, username \in Usernames, user \in Users :
       deletePassword(p, service, username, user)
  /\ UNCHANGED << envelopeVars, appVars >>

Next == StoreFind \/ StoreSave \/ Retrieve \/ Delete

\* the vault processes working on the shared store
Spec == Init /\ [][Next]_vars

\* the same, the collection holding a record this vault cannot open
InitForeign == StoreStartsWith({ForeignRecord}) /\ NoEnvelopeRun /\ NoAppRun

SpecForeign == InitForeign /\ [][Next]_vars

\* the cipher envelope on its own
SpecEnvelope == InitEnvelope /\ [][NextEnvelope]_vars

StartApp ==
  /\ \E register \in BOOLEAN, newUsername \in TypedNames,
        newPassword \in TypedPasswords :
       startApp(register, newUsername, newPassword)
  /\ UNCHANGED envelopeVars

Login ==
  /\ \E username \in TypedNames, password \in TypedPasswords :
       login(username, password)
  /\ UNCHANGED envelopeVars

MenuStore ==
  /\ \E service \in Services, username \in Usernames, password \in TypedSecrets :
       mainMenuStore(service, username, password)
  /\ UNCHANGED envelopeVars

MenuStoreReturns == mainMenuStoreReturns /\ UNCHANGED envelopeVars

MenuRetrieve ==
  /\ \E service \in Services, username \in Usernames :
       mainMenuRetrieve(service, username)
  /\ UNCHANGED envelopeVars

MenuDelete ==
  /\ \E service \in Services, username \in Usernames :
       mainMenuDelete(service, username)
  /\ UNCHANGED envelopeVars

MenuExit == mainMenuExit /\ UNCHANGED envelopeVars

NextApp ==
  \/ StartApp \/ Login \/ MenuStore \/ MenuStoreReturns
  \/ MenuRetrieve \/ MenuDelete \/ MenuExit

InitAppRun == InitApp /\ NoEnvelopeRun

\* one command line: registration, login, menu
SpecApp == InitAppRun /\ [][NextApp]_vars

\* what a caller of storePassword can pass as the password
DirectPasswordArgs == PasswordArgs \cup { Str(<< >>) }

DirectStoreFind ==
  /\ \E service \in Services, username \in Usernames,
        password \in DirectPasswordArgs, user \in Users :
       storePasswordFind(AppProc, service, username, password, user)
  /\ UNCHANGED << envelopeVars, appVars >>

DirectStoreSave ==
  /\ storePasswordSave(AppProc)
  /\ UNCHANGED << envelopeVars, appVars >>

DirectRetrieve ==
  /\ \E service \in Services, username \in Usernames, user \in Users :
       retrievePassword(AppProc, service, username, user)
  /\ UNCHANGED << envelopeVars, appVars >>

DirectDelete ==
  /\ \E service \in Services, username \in Usernames, user \in Users :
       deletePassword(AppProc, service, username, user)
  /\ UNCHANGED << envelopeVars, appVars >>

StoreFindThrows ==
  /\ \E service \in Services, username \in Usernames,
        password \in DirectPasswordArgs, user \in Users, e \in PersistenceErrors :
       storePasswordFindThrows(AppProc, service, username, password, user, e)
  /\ UNCHANGED << envelopeVars, appVars >>

StoreSaveThrows ==
  /\ \E e \in PersistenceErrors : storePasswordSaveThrows(AppProc, e)
  /\ UNCHANGED << envelopeVars, appVars >>

RetrieveThrows ==
  /\ \E service \in Services, username \in Usernames, user \in Users,
        e \in PersistenceErrors :
       retrievePasswordThrows(AppProc, service, username, user, e)
  /\ UNCHANGED << envelopeVars, appVars >>

DeleteThrows ==
  /\ \E service \in Services, username \in Usernames, user \in Users,
        e \in PersistenceErrors :
       deletePasswordThrows(AppProc, service, username, user, e)
  /\ UNCHANGED << envelopeVars, appVars >>

NextDirect ==
  \/ DirectStoreFind \/ DirectStoreSave \/ DirectRetrieve \/ DirectDelete
  \/ StoreFindThrows \/ StoreSaveThrows \/ RetrieveThrows \/ DeleteThrows

\* one caller of the three operations, passing any argument, the
\* connection to the server failing at any query or write
SpecDirect == Init /\ [][NextDirect]_vars

CreateUserLoad ==
  /\ \E p \in Procs, username \in TypedNames, password \in TypedPasswords,
        readable \in BOOLEAN :
       createUserLoad(p, username, password, readable)
  /\ UNCHANGED envelopeVars

CreateUserSave ==
  /\ \E p \in Procs : createUserSave(p)
  /\ UNCHANGED envelopeVars

AuthUser ==
  /\ \E p \in Procs, username \in TypedNames, password \in TypedPasswords :
       authUserCall(p, username, password)
  /\ UNCHANGED envelopeVars

NextUsers == CreateUserLoad \/ CreateUserSave \/ AuthUser

\* the vault processes of one directory registering and authenticating
SpecUsers == Init /\ [][NextUsers]_vars

----------------------------------------------------------------------------
(* What the formulas below speak of *)

RecordsUnder(d, k) == { x \in d : Key(x) = k }

Present(d, k) == RecordsUnder(d, k) # {}

\* the record d holds under k opens to the value v
OpensTo(d, k, v) ==
  \E x \in d : /\ RecordsUnder(d, k) = {x}
               /\ Opened(x.encryptedPassword, x.iv).ret = v

Has(o, text) == \E i \in 1..Len(o) : o[i].text = text

HasError(o, name) ==
  \E i \in 1..Len(o) : o[i] = Line("Error saving password", Error(name))

Returned(p, op) == pc[p] = "idle" /\ args[p].op = op

\* a step in which p makes the call op on key k
RetrieveStep(p, k) == retrievePassword(p, k[2], k[3], k[1])

DeleteStep(p, k) == deletePassword(p, k[2], k[3], k[1])

\* a step in which a storePassword of p on key k does its write
SaveStep(p, k) == storePasswordSave(p) /\ Key(args[p]) = k

\* a step in which p calls storePassword on key k, up to its lookup
FindStep(p, k) ==
  \E password \in PasswordArgs : storePasswordFind(p, k[2], k[3], password, k[1])

\* between the lookup of the suspended storePassword of p and now, no other
\* process inserted, replaced or deleted the record of its key
Undisturbed(p) ==
  LET a == args[p]
      e == locals[p].existingPassword
      f == FindOne(db, a.service, a.username, a.user)
  IN  IF e = Null THEN f = Null ELSE f # Null /\ f.doc.id = e.id

Alphabet == { chars[i] : i \in 1..Len(chars) }

----------------------------------------------------------------------------
(* The credential store *)

\* C1: in every reachable state, whatever the interleaving of the puts and
\* deletes of the processes, the collection holds at most one record for
\* each (owner, service, account).
C1_OneRecordPerKey == \A k \in Keys : Cardinality(RecordsUnder(db, k)) <= 1

\* two puts on one key both found it absent, and the index refused the
\* second insert
C1_Witness ==
  \E p \in Procs :
    /\ Returned(p, "storePassword")
    /\ HasError(out[p], "E11000 duplicate key")
    /\ Cardinality(RecordsUnder(db, Key(args[p]))) = 1

\* C2: a put whose insert the unique index refused has either retried as
\* an update or returned a ConflictError to its caller, and no second
\* record exists under its key.
C2_ConflictSurfaced ==
  \A p \in Procs :
    (Returned(p, "storePassword") /\ HasError(out[p], "E11000 duplicate key"))
    => /\ \/ ret[p] = Error("ConflictError")
          \/ Has(out[p], "Updated password for")
       /\ Cardinality(RecordsUnder(db, Key(args[p]))) <= 1

\* C3: while a key has not been deleted since the latest put that wrote
\* it, exactly one record exists under the key, it opens to the secret of
\* that put, and a get on the key returns that secret.
C3_LatestPutIsRead ==
  [][ \A k \in Keys :
        /\ latest'[k] # Null => OpensTo(db', k, latest'[k])
        /\ \A p \in Procs :
             (RetrieveStep(p, k) /\ latest[k] # Null) => ret'[p] = latest[k] ]_vars

\* a put, a second put that replaced the envelope, and a get that
\* returned the second secret
C3_Witness ==
  \E p, q \in Procs :
    /\ Returned(p, "storePassword")
    /\ Has(out[p], "Updated password for")
    /\ Returned(q, "retrievePassword")
    /\ Key(args[q]) = Key(args[p])
    /\ ret[q] # Null
    /\ ret[q] = latest[Key(args[p])]
    /\ ret[q] = (IF Truthy(args[p].password) THEN args[p].password ELSE out[p][1].arg)

\* C6: a get that finds no record and a get that finds a record it cannot
\* open return different results to their callers, neither of them a string.
C6_FailuresDistinct ==
  \A p, q \in Procs :
    ( /\ Returned(p, "retrievePassword")
      /\ Has(out[p], "No password found.")
      /\ Returned(q, "retrievePassword")
      /\ Has(out[q], "Decryption failed") )
    => /\ ret[p] # ret[q]
       /\ ret[p].type # "string"
       /\ ret[q].type # "string"

C14_FailuresTyped ==
  \A p \in Procs :
    /\ (Returned(p, "storePassword") /\ Has(out[p], "Error saving password"))
         => ret[p].type = "error"
    /\ (Returned(p, "retrievePassword") /\ Has(out[p], "Decryption failed"))
         => ret[p].type = "error"
    /\ (pc[p] = "idle" /\ Has(out[p], "No password found."))
         => ret[p].type = "error"

C17_OtherKeysUntouched ==
  [][ \A k \in Keys, p \in Procs :
        /\ (FindStep(p, k) \/ SaveStep(p, k) \/ RetrieveStep(p, k) \/ DeleteStep(p, k))
             => { x \in db' : Key(x) # k } = { x \in db : Key(x) # k }
        /\ FindStep(p, k) =>
             \/ locals'[p].existingPassword = Null
             \/ \E x \in RecordsUnder(db, k) : x.id = locals'[p].existingPassword.id
        /\ RetrieveStep(p, k) =>
             \/ ret'[p] = Null
             \/ \E x \in RecordsUnder(db, k) :
                  ret'[p] = Opened(x.encryptedPassword, x.iv).ret ]_vars

\* two owners kept a record for the same service and account; one deleted
\* hers, the other's is still there and opens to his secret
C17_Witness ==
  \E p, q \in Procs :
    /\ Returned(p, "deletePassword")
    /\ Has(out[p], "Deleted password for")
    /\ Returned(q, "storePassword")
    /\ args[q].user # args[p].user
    /\ args[q].service = args[p].service
    /\ args[q].username = args[p].username
    /\ ~Present(db, Key(args[p]))
    /\ \E x \in RecordsUnder(db, Key(args[q])) : x.id = 2
    /\ latest[Key(args[q])] # Null
    /\ OpensTo(db, Key(args[q]), latest[Key(args[q])])

\* C20: every record kept holds the key fields and the envelope of a seal
\* and nothing else; no field is a plaintext passed or generated, as a
\* string or as the hex digits of its bytes.
C20_OnlyEnvelopesStored ==
  \A x \in db :
    /\ DOMAIN x = {"id", "service", "username", "user", "encryptedPassword", "iv"}
    /\ \E t \in SealedEnvelopes :
         t[3] = [encryptedPassword |-> x.encryptedPassword, iv |-> x.iv]
    /\ \A pw \in StorePlaintexts :
         /\ x.encryptedPassword \notin { pw, ToHex(Utf8Encode(pw)) }
         /\ x.iv \notin { pw, ToHex(Utf8Encode(pw)) }

\* records of a secret passed and of a secret generated are kept
C20_Witness ==
  /\ \E p \in Procs :
       /\ Returned(p, "storePassword")
       /\ args[p].password = Str(hunter2pass)
       /\ OpensTo(db, Key(args[p]), Str(hunter2pass))
  /\ \E q \in Procs :
       /\ Returned(q, "storePassword")
       /\ args[q].password = Null
       /\ Has(out[q], "Updated password for") \/ Has(out[q], "Password saved for")
       /\ OpensTo(db, Key(args[q]), out[q][1].arg)

\* C21: the password storePassword generates has 12 characters, among
\* them a lowercase letter, an uppercase letter and a digit.
C21_GeneratedHasClasses ==
  \A p \in Procs :
    (out[p] # << >> /\ out[p][1].text = "Generated Password") =>
      LET s == out[p][1].arg.chars
      IN  /\ Len(s) = 12
          /\ \E i \in 1..Len(s) : s[i] \in 97..122
          /\ \E i \in 1..Len(s) : s[i] \in 65..90
          /\ \E i \in 1..Len(s) : s[i] \in 48..57

\* C24: a put first has its secret (the one passed, or one generated and
\* announced), seals exactly that secret and looks its key up, all without
\* writing; then it writes once: it replaces the envelope of the document
\* its lookup found, or inserts one document when the lookup found none,
\* or fails and changes nothing. The collection changes in no step but
\* the write of a put and a delete.
C24_PutStepOrder ==
  [][ /\ \A k \in Keys, p \in Procs :
           /\ FindStep(p, k) =>
                LET l == locals'[p]
                IN  /\ db' = db
                    /\ pc'[p] = "save"
                    /\ IF Truthy(args'[p].password)
                         THEN /\ l.password = args'[p].password.chars
                              /\ out'[p] = << >>
                         ELSE /\ \E rnd \in RandomIntRuns : l.password = Generated(rnd)
                              /\ out'[p] = << Line("Generated Password", Str(l.password)) >>
                    /\ \E iv \in RandomIVs :
                         Sealed(l.password, iv) =
                           [encryptedPassword |-> l.encryptedPassword, iv |-> l.iv]
                    /\ l.existingPassword = Null <=> ~Present(db, k)
           /\ SaveStep(p, k) =>
                LET l == locals[p]
                IN  /\ pc'[p] = "idle"
                    /\ IF l.existingPassword # Null
                         THEN \/ db' = db
                              \/ db' = { IF x.id = l.existingPassword.id
                                           THEN [x EXCEPT
                                                   !.encryptedPassword = l.encryptedPassword,
                                                   !.iv = l.iv]
                                           ELSE x : x \in db }
                         ELSE \/ db' = db
                              \/ \E x \in db' \ db :
                                   /\ db' = db \cup {x}
                                   /\ Key(x) = k
                                   /\ x.encryptedPassword = l.encryptedPassword
                                   /\ x.iv = l.iv
      /\ db' # db =>
           \E k \in Keys, p \in Procs : SaveStep(p, k) \/ DeleteStep(p, k) ]_vars

\* a put that generated its secret has replaced the envelope of a record
C24_Witness ==
  \E p \in Procs :
    /\ Returned(p, "storePassword")
    /\ Len(out[p]) = 2
    /\ out[p][1].text = "Generated Password"
    /\ out[p][2].text = "Updated password for"
    /\ \E x \in RecordsUnder(db, Key(args[p])) : x.id = 1
    /\ OpensTo(db, Key(args[p]), out[p][1].arg)

\* C25: the ciphertext and the nonce of every record kept are those of one
\* encryptPassword call, made by the latest put that wrote the record's
\* key, and the record opens to the secret of that put, whatever puts and
\* deletes on the key have overlapped.
C25_EnvelopeOfOneSeal ==
  \A x \in db :
    /\ latest[Key(x)] # Null
    /\ \E iv \in RandomIVs :
         Sealed(latest[Key(x)].chars, iv) =
           [encryptedPassword |-> x.encryptedPassword, iv |-> x.iv]
    /\ Opened(x.encryptedPassword, x.iv) =
         [ret |-> latest[Key(x)], message |-> "none"]

\* a put that looked up a record is about to replace an envelope that is
\* no longer the one it saw: another put has replaced it in between
C25_Witness ==
  \E p, q \in Procs :
    /\ pc[p] = "save"
    /\ Returned(q, "storePassword")
    /\ Key(args[q]) = Key(args[p])
    /\ Has(out[q], "Updated password for")
    /\ locals[p].existingPassword # Null
    /\ \E x \in RecordsUnder(db, Key(args[p])) :
         /\ x.id = locals[p].existingPassword.id
         /\ x.iv # locals[p].iv
         /\ x.encryptedPassword # locals[p].encryptedPassword
         /\ latest[Key(x)] # Str(locals[p].password)

\* C26: when a put that announced a generated password returns, a record
\* exists under its key and opens to the password announced.
C26_AnnouncedIsStored ==
  [][ \A k \in Keys, p \in Procs :
        (SaveStep(p, k) /\ out[p] # << >> /\ out[p][1].text = "Generated Password")
        => OpensTo(db', k, out[p][1].arg) ]_vars

\* C27: right after the write of a put that reports "Password saved for"
\* or "Updated password for" the key has exactly one record, with the
\* envelope of that put; a put whose document was deleted between its
\* lookup and its write reports an error and changes nothing.
C27_SuccessMeansWritten ==
  [][ \A k \in Keys, p \in Procs :
        SaveStep(p, k) =>
          LET l == locals[p]
              last == out'[p][Len(out'[p])].text
          IN  /\ last \in {"Password saved for", "Updated password for"} =>
                   \E x \in db' :
                     /\ RecordsUnder(db', k) = {x}
                     /\ x.encryptedPassword = l.encryptedPassword
                     /\ x.iv = l.iv
              /\ ( /\ l.existingPassword # Null
                   /\ \A x \in db : x.id # l.existingPassword.id )
                 => last = "Error saving password" /\ db' = db ]_vars

\* a delete came between the lookup and the write of a put, which
\* reported the error; the key is absent
C27_Witness ==
  \E p, q \in Procs :
    /\ Returned(p, "storePassword")
    /\ HasError(out[p], "DocumentNotFoundError")
    /\ Returned(q, "deletePassword")
    /\ Key(args[q]) = Key(args[p])
    /\ Has(out[q], "Deleted password for")
    /\ ~Present(db, Key(args[p]))

\* C28: storePassword, retrievePassword and deletePassword always resolve
\* (to undefined, null or a string), also when the query or the write is
\* rejected: the error is then printed, storePassword and deletePassword
\* resolve to undefined and retrievePassword to null, and the collection
\* is as it was; a storePassword that printed an error for its write has
\* changed nothing.
C28_NeverRejects ==
  [][ LET p == AppProc
      IN  /\ ret'[p].type \in {"undefined", "null", "string", "pending"}
          /\ pc'[p] = "idle" => ret'[p].type # "pending"
          /\ \A e \in PersistenceErrors :
               /\ ( \/ \E k \in Keys, password \in DirectPasswordArgs :
                         storePasswordFindThrows(p, k[2], k[3], password, k[1], e)
                    \/ storePasswordSaveThrows(p, e) )
                  => /\ db' = db
                     /\ pc'[p] = "idle"
                     /\ ret'[p] = Undefined
                     /\ out'[p][Len(out'[p])] = Line("Error saving password", Error(e))
               /\ (\E k \in Keys : retrievePasswordThrows(p, k[2], k[3], k[1], e))
                  => /\ db' = db
                     /\ ret'[p] = Null
                     /\ out'[p] = << Line("Error retrieving password", Error(e)) >>
               /\ (\E k \in Keys : deletePasswordThrows(p, k[2], k[3], k[1], e))
                  => /\ db' = db
                     /\ ret'[p] = Undefined
                     /\ out'[p] = << Line("Error deleting password", Error(e)) >>
          /\ ( /\ pc[p] = "save"
               /\ pc'[p] = "idle"
               /\ out'[p][Len(out'[p])].text = "Error saving password" )
             => db' = db ]_vars

\* a storePassword of a given secret on a key that has a record ended with
\* the server unreachable; the record still opens to the earlier secret
C28_Witness ==
  LET p == AppProc
  IN  /\ Returned(p, "storePassword")
      /\ args[p].password = Str(hunter2pass)
      /\ out[p] = << Line("Error saving password", Error("MongoNetworkError")) >>
      /\ ret[p] = Undefined
      /\ latest[Key(args[p])] # Null
      /\ latest[Key(args[p])] # Str(hunter2pass)
      /\ OpensTo(db, Key(args[p]), latest[Key(args[p])])

\* C30: a storePassword called with "" or null generates a password of 12
\* characters, announces it and seals it, and when its write succeeds the
\* record opens to that password; no record kept opens to the empty string.
C30_EmptySecretIsAbsent ==
  [][ LET p == AppProc
      IN  /\ \A x \in db' : Opened(x.encryptedPassword, x.iv).ret # Str(<< >>)
          /\ \A k \in Keys, password \in { Null, Str(<< >>) } :
               storePasswordFind(p, k[2], k[3], password, k[1]) =>
                 LET l == locals'[p]
                 IN  /\ Len(l.password) = DefaultLength
                     /\ out'[p] = << Line("Generated Password", Str(l.password)) >>
                     /\ Opened(l.encryptedPassword, l.iv).ret = Str(l.password)
          /\ \A k \in Keys :
               ( /\ SaveStep(p, k)
                 /\ ~Truthy(args[p].password)
                 /\ out'[p][Len(out'[p])].text
                      \in {"Password saved for", "Updated password for"} )
               => OpensTo(db', k, out[p][1].arg) ]_vars

\* a storePassword called with "" has inserted a record, which opens to
\* the 12 characters it announced
C30_Witness ==
  LET p == AppProc
  IN  /\ Returned(p, "storePassword")
      /\ args[p].password = Str(<< >>)
      /\ Has(out[p], "Password saved for")
      /\ Len(out[p][1].arg.chars) = DefaultLength
      /\ OpensTo(db, Key(args[p]), out[p][1].arg)

----------------------------------------------------------------------------
(* The envelope round trip and damaged envelopes *)

\* C4: opening what encryptPassword sealed returns the plaintext sealed,
\* for every plaintext of every length up to MaxPlainLen.
C4_RoundTrip == phase = "opened" => result.ret = Str(plain)

C4_Witness ==
  /\ phase = "opened"
  /\ Len(plain) > BlockSize
  /\ \E i \in 1..Len(plain) : plain[i] > 127
  /\ result.ret = Str(plain)

\* C5: an envelope with one ciphertext byte changed, or with its nonce
\* truncated, is never opened to a plaintext: decryptPassword fails.
C5_DamageDetected == phase = "opened damaged" => result.ret = Null

\* C5 for a changed byte that lies before the last ciphertext block: the
\* chaining carries the change into the next plaintext block only, and the
\* padding of the last block is checked as if nothing had happened.
C5_EarlierBlockDamageDetected ==
  ( /\ phase = "opened damaged"
    /\ damage.kind = "ciphertext byte"
    /\ damage.at <= Len(envelope.encryptedPassword) \div 2 - BlockSize )
  => result.ret = Null

\* C5, the part about the nonce alone
C5_TruncatedNonceDetected ==
  (phase = "opened damaged" /\ damage.kind = "nonce") => result.ret = Null

C22_EnvelopeLengths ==
  phase \in {"sealed", "opened"} =>
    LET n == Len(Utf8Encode(plain))
    IN  /\ Len(FromHex(envelope.iv)) = 16
        /\ Len(envelope.iv) = 32
        /\ Len(FromHex(envelope.encryptedPassword)) = 16 * (n \div 16 + 1)
        /\ Len(envelope.encryptedPassword) = 32 * (n \div 16 + 1)

\* a plaintext of exactly two blocks was sealed into three
C22_Witness ==
  /\ phase = "sealed"
  /\ Len(Utf8Encode(plain)) = 32
  /\ Len(plain) < 32
  /\ Len(FromHex(envelope.encryptedPassword)) = 48

----------------------------------------------------------------------------
(* Users and the command line *)

\* users.json has an entry of this name whose hash is that of the password
Registered(file, username, password) ==
  \E i \in 1..Len(loadUsers(file)) :
    /\ loadUsers(file)[i].username = username
    /\ loadUsers(file)[i].password = hashPassword(password)

C13_AuthReturnsBoolean ==
  authed # NoCall =>
    authed.ret = Bool(Registered(usersFile, authed.username, authed.password))

\* C18: a storePassword, retrievePassword or deletePassword call is made
\* only from the menu, after an authUser of this process returned true for
\* the name in loggedInUser, and with that name as the owner; from the
\* menu on loggedInUser does not change.
C18_StoreCallsAfterLogin ==
  [][ /\ calls' # calls =>
           /\ appPc = "menu"
           /\ Truthy(loggedInUser)
           /\ loggedInUser.chars \in authenticated
           /\ NameChars(args'[AppProc].user) = loggedInUser.chars
           /\ \A p \in Procs \ {AppProc} : args'[p] = NoCall
      /\ appPc \in {"menu", "exited"} => loggedInUser' = loggedInUser ]_vars

\* after a failed and a successful attempt the menu made two calls and
\* the process exited
C18_Witness ==
  /\ appPc = "exited"
  /\ calls >= 2
  /\ authed.ret = Bool(TRUE)
  /\ loggedInUser = Str(authed.username)
  /\ authenticated = { loggedInUser.chars }
  /\ args[AppProc].op = "retrievePassword"
  /\ NameChars(args[AppProc].user) = loggedInUser.chars
  /\ ret[AppProc].type = "string"

\* C19: login returns from a pass through its loop exactly when the
\* authUser of that pass succeeded, with loggedInUser the name typed;
\* after a failed attempt it prompts again.
C19_LoginReturnsOnSuccess ==
  [][ \A u \in TypedNames, pw \in TypedPasswords :
        login(u, pw) =>
          /\ Truthy(authed'.ret) <=> appPc' = "menu"
          /\ Truthy(authed'.ret) => loggedInUser' = Str(u) ]_vars

\* C29: every entry users.json has before a step of a createUser call it
\* has after it, unchanged.
C29_RegistrationOnlyAdds ==
  [][ \A i \in 1..Len(loadUsers(usersFile)) :
        \E j \in 1..Len(loadUsers(usersFile')) :
          loadUsers(usersFile')[j] = loadUsers(usersFile)[i] ]_vars

====
